---- MODULE Spec2Model ----
(***************************************************************************)
(* Model of the synchronisation core of shared-surface:                    *)
(* src/src/services/storageService.ts (class StorageService) together with *)
(* the remote JSON document store it talks to, and the handlers of the     *)
(* InteractiveTable component that drive it and keep the view.             *)
(*                                                                         *)
(* Every network call is split at its suspension point: the request is     *)
(* issued, the server handles it, and the response resumes the awaiting    *)
(* handler.  All in-memory work between two suspension points is one step. *)
(* The timestamp lastUpdated is not modelled.  Of an item's fields, id, x  *)
(* and y are modelled as they are; name stands for the fields that no      *)
(* operation of the service reads or writes (name, type, emoji, color,     *)
(* isText).                                                                *)
(***************************************************************************)
EXTENDS Integers, Sequences, FiniteSets

\* ------------------------------------------------------------------ bounds
MaxId == 2          \* item ids are 1..MaxId
MaxCoord == 1       \* coordinates are 0..MaxCoord
MaxName == 2        \* values of the non-positional fields are 1..MaxName
MaxQueue == 2       \* operations accepted and not yet drained
MaxLoads == 2       \* GET requests in flight
MaxVersion == 2     \* the remote document starts with a version in 1..MaxVersion
MaxCalls == 3       \* calls the presentation layer makes in one behaviour
MaxLen == 2         \* length of the item lists drawn as inputs

VARIABLES
  cache,              \* StorageService.cache (present = FALSE models null)
  pendingOperations,  \* StorageService.pendingOperations, closures as records
  isProcessing,       \* StorageService.isProcessing
  lastVersion,        \* StorageService.lastVersion
  timers,             \* number of armed setTimeout timers of debouncedSave
  timeoutArmed,       \* the timer the closure variable `timeout` names is armed
  remote,             \* the document held by the remote store
  loads,              \* loadObjects calls suspended at their GET
  puts,               \* processPendingOperations calls suspended at their PUT
  ret,                \* what the handler step just taken returned or did
  calls,              \* calls the presentation layer has made so far
  burst,              \* the operations enqueued since the timer was armed
  v1run,              \* successful flushes since a load left version 1
  view                \* InteractiveTable's state `objects`, the items it shows

vars == <<cache, pendingOperations, isProcessing, lastVersion, timers,
          timeoutArmed, remote, loads, puts, ret, calls, burst, v1run, view>>

\* ------------------------------------------------------------------- data
Ids == 1..MaxId
Coords == 0..MaxCoord
Names == 1..MaxName

\* StoredObject
Items == [id : Ids, name : Names, x : Coords, y : Coords]

Range(s) == {s[i] : i \in DOMAIN s}

UniqueIds(objs) ==
  \A i, j \in DOMAIN objs : objs[i].id = objs[j].id => i = j

HasId(objs, id) == \E i \in DOMAIN objs : objs[i].id = id

\* item lists with pairwise distinct ids, up to length n, over the items S
ItemLists(S, n) ==
  {objs \in UNION {[1..k -> S] : k \in 0..n} : UniqueIds(objs)}

NoOp == [kind |-> "none"]

\* ------------------------------------------------------------- documents
NoCache == [present |-> FALSE, objects |-> <<>>, version |-> 0]

\* StorageData as it travels in a request or response body
Doc(objs, v) == [objects |-> objs, version |-> v]

\* record.version || 1
VersionOr1(v) == IF v = 0 THEN 1 ELSE v

\* a loadObjects that keeps the cached objects the response does not have
LoadedCacheKeepsLocal(doc) ==
  [present |-> TRUE,
   objects |-> doc.objects
                 \o SelectSeq(cache.objects, LAMBDA o : ~HasId(doc.objects, o.id)),
   version |-> VersionOr1(doc.version)]

\* the cache a successful GET builds
LoadedCache(doc) ==
  [present |-> TRUE, objects |-> doc.objects, version |-> VersionOr1(doc.version)]

\* a catch branch that builds an empty cache with no version
FallbackCacheV0 == [present |-> TRUE, objects |-> <<>>, version |-> 0]

\* a catch branch that keeps the cache it finds, if there is one
FallbackCacheStale ==
  IF cache.present THEN cache ELSE [present |-> TRUE, objects |-> <<>>, version |-> 1]

\* a catch branch that leaves the cache null
FallbackCacheNull == NoCache

\* the cache the catch branch of loadObjects builds
FallbackCache == [present |-> TRUE, objects |-> <<>>, version |-> 1]

\* a loadObjects that never records the version it loaded
LoadedVersionStale(ok, c) == lastVersion

\* lastVersion after loadObjects: set on success, untouched in the catch branch
LoadedVersion(ok, c) == IF ok THEN c.version ELSE lastVersion

\* a loadObjects whose catch branch keeps the cache it finds
CacheAfterLoadKeepsOld(ok, doc) == IF ok THEN LoadedCache(doc) ELSE cache

\* the value loadObjects leaves in the cache and returns the objects of
CacheAfterLoad(ok, doc) == IF ok THEN LoadedCache(doc) ELSE FallbackCache

\* a getCurrentObjects that has nothing to show
GetCurrentObjectsEmpty == <<>>

\* getCurrentObjects
GetCurrentObjects == IF cache.present THEN cache.objects ELSE <<>>

\* ------------------------------------------------- the queued operations
\* an add that pushes without dropping the object with the same id
AddOpNoReplace(objs, object) == Append(objs, object)

\* an add that replaces the whole list by the new object
AddOpAlone(objs, object) == <<object>>

\* closure of addObject: drop any object with the same id, then push
AddOp(objs, object) ==
  Append(SelectSeq(objs, LAMBDA o : o.id # object.id), object)

\* an update that replaces x and leaves y
UpdateOpOnlyX(objs, objectId, newX, newY) ==
  [i \in DOMAIN objs |->
     IF objs[i].id = objectId THEN [objs[i] EXCEPT !.x = newX] ELSE objs[i]]

\* closure of updateObject: map, replacing x and y where the id matches
UpdateOp(objs, objectId, newX, newY) ==
  [i \in DOMAIN objs |->
     IF objs[i].id = objectId THEN [objs[i] EXCEPT !.x = newX, !.y = newY]
                              ELSE objs[i]]

\* a remove whose filter keeps the id and drops the rest
RemoveOpFlipped(objs, objectId) == SelectSeq(objs, LAMBDA o : o.id = objectId)

\* closure of removeObject: filter out the id
RemoveOp(objs, objectId) == SelectSeq(objs, LAMBDA o : o.id # objectId)

\* operation(): one closure run against the object list of the cache
ApplyOp(objs, op) ==
  CASE op.kind = "add" -> AddOp(objs, op.obj)
    [] op.kind = "update" -> UpdateOp(objs, op.id, op.x, op.y)
    [] op.kind = "remove" -> RemoveOp(objs, op.id)
    [] OTHER -> objs

\* pendingOperations.forEach(operation => operation())
RECURSIVE ApplyAll(_, _)
ApplyAll(objs, ops) ==
  IF ops = <<>> THEN objs ELSE ApplyAll(ApplyOp(objs, Head(ops)), Tail(ops))

\* ---------------------------------------------------------------- merging
\* a merge that pushes every local object
MergeObjectsAll(serverObjects, localObjects) == serverObjects \o localObjects

\* syncObjects after its load: the server objects, then the local objects
\* whose id the server list lacks
MergeObjects(serverObjects, localObjects) ==
  serverObjects \o SelectSeq(localObjects, LAMBDA l : ~HasId(serverObjects, l.id))

\* no handler returned in the step just taken
NoRet == [act |-> "none"]

\* --------------------------------------------------------------- debounce
\* clearTimeout(timeout): disarms the timer `timeout` names, if still armed
ClearTimeout(n, armed) == IF armed THEN n - 1 ELSE n

\* debounce without its clearTimeout
DebounceNoClear(n, armed) == n + 1

\* a debounce that clears the timer and sets none
DebounceNoArm(n, armed) == ClearTimeout(n, armed)

\* the function debounce returns: clearTimeout(timeout); timeout = setTimeout(..)
Debounce(n, armed) == ClearTimeout(n, armed) + 1

\* forceSave's clearTimeout((this.debouncedSave as any).timeout): the returned
\* function has no property `timeout`, so the argument is undefined and no
\* timer is disarmed
ForceClear(n, armed) == n

NoBurst == [on |-> FALSE, clean |-> FALSE, base |-> <<>>, ops |-> <<>>]

\* the burst after an enqueue of op: a burst starts at an enqueue that finds no
\* timer armed, and it is tracked when the cache is present and no flush is in
\* flight at that moment
BurstAfter(b, c, n, queue, op) ==
  IF n = 0
    THEN IF c.present /\ ~isProcessing
           THEN [on |-> TRUE, clean |-> queue = <<>>, base |-> c.objects,
                 ops |-> <<op>>]
           ELSE NoBurst
    ELSE IF b.on THEN [b EXCEPT !.ops = Append(@, op)] ELSE NoBurst

\* ------------------------------------------------------------ in flight
\* a loadObjects call suspended at its fetch; kind names the caller that awaits
\* it: "load" (loadObjects itself), "sync" (syncObjects), "op" (addObject,
\* updateObject or removeObject called with no cache)
LoadTask(kind, op, local) ==
  [kind |-> kind, op |-> op, local |-> local, st |-> "sent", doc |-> Doc(<<>>, 0)]

RemoveAt(s, i) == SubSeq(s, 1, i - 1) \o SubSeq(s, i + 1, Len(s))

OpsAwaitingLoad == Cardinality({i \in DOMAIN loads : loads[i].kind = "op"})

\* the record a response body without `record` is read as:
\* data.record || { objects: [], lastUpdated: ..., version: 1 }
DefaultRecord == Doc(<<>>, 1)

\* the shapes of the body a settled GET delivers: "plain" is the stored
\* document when the store answered and no usable body (transport error,
\* non-2xx status, no JSON) when it did not; the others are JSON bodies with
\* no `record`, or with a record that lacks `objects` or `version`. The
\* concurrency specification draws the plain shape only
LeanShapes == {"plain"}
AllShapes == {"plain", "norecord", "noobjects", "noversion"}

\* the shapes a request in status st can settle with
ShapesOf(st) ==
  IF st = "ok" THEN {"plain", "noobjects", "noversion"} ELSE {"plain", "norecord"}

\* data.record || {...} for a body of the given shape made from document doc;
\* a missing `objects` reads as [] (record.objects || []) and a missing
\* `version` as 0, which VersionOr1 turns into 1
ResponseRecord(shape, doc) ==
  CASE shape = "norecord" -> DefaultRecord
    [] shape = "noobjects" -> Doc(<<>>, doc.version)
    [] shape = "noversion" -> Doc(doc.objects, 0)
    [] OTHER -> doc

\* a mutation that reports whether the loadObjects it awaited succeeded
MutateResultOfLoad(loadOk) == loadOk

\* what addObject, updateObject and removeObject return, given how the
\* loadObjects they awaited went (TRUE when there was none to await)
MutateResult(loadOk) == TRUE

\* what processPendingOperations returns from its early return
EarlyReturn == TRUE

\* what processPendingOperations returns once its fetch has settled: true at
\* the end of the try block, false from the catch block
SettledReturn(ok) == IF ok THEN TRUE ELSE FALSE

\* a catch block that leaves the queue as it finds it
QueueAfterPutKeeps(ok, queue) == queue

\* pendingOperations once the fetch of a PUT has settled: the catch block
\* empties it
QueueAfterPut(ok, queue) == IF ok THEN queue ELSE <<>>

\* a processPendingOperations that clears the flag at the end of its try
\* block only
FlagAfterPutOnSuccess(ok) == ~ok

\* isProcessing once the fetch of a PUT has settled: the finally block clears
\* it after the try block and after the catch block alike
FlagAfterPut(ok) == FALSE

\* a processPendingOperations that records the version whatever the outcome
VersionAfterPutAlways(ok, c, lv) == c.version

\* lastVersion once the fetch of a PUT has settled: the try block copies the
\* version of the cache, the catch block leaves it
VersionAfterPut(ok, c, lv) == IF ok THEN c.version ELSE lv

\* ------------------------------------------------------ queueOperation
\* a queueOperation that puts the new operation in front of the queue
QueueOperationFront(op, c, b) ==
  /\ pendingOperations' = <<op>> \o pendingOperations
  /\ timers' = Debounce(timers, timeoutArmed)
  /\ timeoutArmed' = TRUE
  /\ burst' = BurstAfter(b, c, timers, pendingOperations, op)

\* pendingOperations.push(operation); this.debouncedSave(), run against the
\* cache c and the burst b the caller has at that point
QueueOperation(op, c, b) ==
  /\ pendingOperations' = Append(pendingOperations, op)
  /\ timers' = Debounce(timers, timeoutArmed)
  /\ timeoutArmed' = TRUE
  /\ burst' = BurstAfter(b, c, timers, pendingOperations, op)

\* ------------------------------------------------------------ loadObjects
\* loadObjects up to its fetch
LoadObjects ==
  /\ calls < MaxCalls
  /\ Len(loads) < MaxLoads
  /\ loads' = Append(loads, LoadTask("load", NoOp, <<>>))
  /\ calls' = calls + 1
  /\ ret' = NoRet
  /\ UNCHANGED <<cache, pendingOperations, isProcessing, lastVersion, timers,
                 timeoutArmed, remote, puts, burst, v1run, view>>

\* syncObjects up to the fetch of the loadObjects it awaits
SyncObjects(localObjects) ==
  /\ calls < MaxCalls
  /\ Len(loads) < MaxLoads
  /\ loads' = Append(loads, LoadTask("sync", NoOp, localObjects))
  /\ calls' = calls + 1
  /\ ret' = NoRet
  /\ UNCHANGED <<cache, pendingOperations, isProcessing, lastVersion, timers,
                 timeoutArmed, remote, puts, burst, v1run, view>>

\* addObject, updateObject and removeObject share their shape: with no cache
\* await loadObjects first, otherwise queue the closure at once
Mutate(op) ==
  /\ calls < MaxCalls
  /\ Len(pendingOperations) + OpsAwaitingLoad < MaxQueue
  /\ calls' = calls + 1
  /\ IF cache.present
       THEN /\ QueueOperation(op, cache, burst)
            /\ ret' = [act |-> "op", op |-> op, shape |-> "plain",
                       value |-> MutateResult(TRUE)]
            /\ UNCHANGED <<cache, isProcessing, lastVersion, remote, loads, puts,
                           v1run, view>>
       ELSE /\ Len(loads) < MaxLoads
            /\ loads' = Append(loads, LoadTask("op", op, <<>>))
            /\ ret' = NoRet
            /\ UNCHANGED <<cache, pendingOperations, isProcessing, lastVersion,
                           timers, timeoutArmed, remote, puts, burst, v1run, view>>

AddObject(object) == Mutate([kind |-> "add", obj |-> object])

UpdateObject(objectId, newX, newY) ==
  Mutate([kind |-> "update", id |-> objectId, x |-> newX, y |-> newY])

RemoveObject(objectId) == Mutate([kind |-> "remove", id |-> objectId])

\* ------------------------------------------------------ InteractiveTable
\* the `objects` performSync reads: its effect has an empty dependency array,
\* so the interval keeps the performSync of the first render, whose `objects`
\* is the initial state useState([])
ClosureObjects == <<>>

\* tableObjectToStored: the fields the model keeps are copied one by one
\* (name stands for type, which is copied to both name and type)
TableObjectToStored(obj) ==
  [id |-> obj.id, name |-> obj.name, x |-> obj.x, y |-> obj.y]

RECURSIVE MapStored(_)
MapStored(objs) ==
  IF objs = <<>> THEN <<>>
  ELSE <<TableObjectToStored(Head(objs))>> \o MapStored(Tail(objs))

\* a performSync suspended at the fetch of the syncObjects it awaits; shown
\* and stored record the view and the remote objects when the interval fired
SyncTask(currentObjects) ==
  [kind |-> "performSync", op |-> NoOp, local |-> currentObjects,
   st |-> "sent", doc |-> Doc(<<>>, 0), shown |-> view,
   stored |-> remote.objects]

\* performSync once syncObjects has returned: setObjects(syncedObjects) when
\* the JSON of syncedObjects differs from the JSON of currentObjects
ViewAfterSync(currentObjects, syncedObjects, shown) ==
  IF syncedObjects # currentObjects THEN syncedObjects ELSE shown

\* the remote store answers a GET with its document; a request that fails
\* (transport error, non-2xx status) gets no such answer
ServerGet(i) ==
  /\ loads[i].st = "sent"
  /\ loads' = [loads EXCEPT ![i].st = "ok", ![i].doc = remote]
  /\ ret' = NoRet
  /\ UNCHANGED <<cache, pendingOperations, isProcessing, lastVersion, timers,
                 timeoutArmed, remote, puts, calls, burst, v1run, view>>

\* the fetch of a GET settles and resumes loadObjects, which sets the cache,
\* and then the caller that awaited it; a fetch the store did not answer with
\* its document settles as a failure (transport error, non-2xx status, a body
\* that is no JSON) or with a JSON body of one of the other shapes
LoadResponse(i, shape) ==
  LET t == loads[i]
      ok == t.st = "ok" \/ shape # "plain"
      doc == ResponseRecord(shape, t.doc)
      c == CacheAfterLoad(ok, doc)
  IN /\ shape \in ShapesOf(t.st)
     /\ cache' = c
     /\ lastVersion' = LoadedVersion(ok, c)
     /\ loads' = RemoveAt(loads, i)
     /\ v1run' = IF c.version = 1 THEN 0 ELSE -1
     /\ puts' = [j \in DOMAIN puts |-> [puts[j] EXCEPT !.counted = FALSE]]
     /\ view' = IF t.kind = "performSync"
                  THEN ViewAfterSync(t.local, MergeObjects(c.objects, t.local),
                                     view)
                  ELSE view
     /\ ret' = CASE t.kind \in {"sync", "performSync"} ->
                      [act |-> "sync", ok |-> ok, shape |-> shape,
                       before |-> GetCurrentObjects,
                       server |-> c.objects, local |-> t.local,
                       result |-> MergeObjects(c.objects, t.local)]
                  [] t.kind = "load" ->
                      [act |-> "load", ok |-> ok, answered |-> t.st = "ok",
                       shape |-> shape, doc |-> doc,
                       before |-> GetCurrentObjects, result |-> c.objects]
                  [] OTHER ->
                      [act |-> "op", op |-> t.op, shape |-> shape,
                       value |-> MutateResult(ok)]
     /\ IF t.kind = "op"
          THEN QueueOperation(t.op, c, NoBurst)
          ELSE /\ burst' = NoBurst
               /\ UNCHANGED <<pendingOperations, timers, timeoutArmed>>
     /\ UNCHANGED <<isProcessing, remote, calls>>

\* ------------------------------------------------ processPendingOperations
\* processPendingOperations without the isProcessing test
CanProcessNoFlag == ~(pendingOperations = <<>> \/ ~cache.present)

\* an early return that does not look at the length of the queue
CanProcessNoEmptyCheck == ~(isProcessing \/ ~cache.present)

\* the early return of processPendingOperations is not taken
CanProcess ==
  ~(isProcessing \/ pendingOperations = <<>> \/ ~cache.present)

\* a flush that applies the queue without its last operation
FlushedCacheShort(c, queue, lv) ==
  [c EXCEPT !.objects = ApplyAll(c.objects, SubSeq(queue, 1, Len(queue) - 1)),
            !.version = lv + 1]

\* a flush that bumps the version of the cache instead of lastVersion
FlushedCacheOwnVersion(c, queue, lv) ==
  [c EXCEPT !.objects = ApplyAll(c.objects, queue), !.version = c.version + 1]

\* the cache after the queue has been applied and the version bumped
FlushedCache(c, queue, lv) ==
  [c EXCEPT !.objects = ApplyAll(c.objects, queue), !.version = lv + 1]

\* JSON.stringify(this.cache), evaluated when fetch is called
PutBody(c) == Doc(c.objects, c.version)

\* a processPendingOperations that applies the queue and leaves it filled
DrainedNot(queue) == queue

\* the queue after processPendingOperations has applied it
Drained(queue) == <<>>

\* processPendingOperations up to its fetch, called by via ("timer" or "force")
ProcessPendingOperations(via) ==
  IF CanProcess
    THEN /\ isProcessing' = TRUE
         /\ cache' = FlushedCache(cache, pendingOperations, lastVersion)
         /\ pendingOperations' = Drained(pendingOperations)
         /\ puts' = Append(puts, [doc |-> PutBody(cache'), st |-> "sent",
                                  via |-> via, counted |-> v1run >= 0])
         /\ ret' = [act |-> "flush", via |-> via, out |-> "put",
                    before |-> cache.objects, ops |-> pendingOperations,
                    coalesced |-> burst.on /\ burst.clean,
                    returned |-> FALSE, value |-> FALSE]
    ELSE /\ ret' = [act |-> "flush", via |-> via,
                    out |-> IF isProcessing THEN "busy"
                            ELSE IF pendingOperations = <<>> THEN "empty"
                            ELSE "nocache",
                    before |-> <<>>, ops |-> <<>>, coalesced |-> FALSE,
                    returned |-> TRUE, value |-> EarlyReturn]
         /\ UNCHANGED <<isProcessing, cache, pendingOperations, puts>>

\* a timer set by debouncedSave fires and calls processPendingOperations
TimerFire ==
  /\ timers > 0
  /\ \E named \in BOOLEAN :
       /\ IF named THEN timeoutArmed
                   ELSE timers > (IF timeoutArmed THEN 1 ELSE 0)
       /\ timeoutArmed' = (timeoutArmed /\ ~named)
  /\ timers' = timers - 1
  /\ ProcessPendingOperations("timer")
  /\ burst' = NoBurst
  /\ UNCHANGED <<lastVersion, remote, loads, calls, v1run, view>>

\* forceSave up to the fetch of processPendingOperations
ForceSave ==
  /\ calls < MaxCalls
  /\ calls' = calls + 1
  /\ timers' = ForceClear(timers, timeoutArmed)
  /\ timeoutArmed' = timeoutArmed
  /\ ProcessPendingOperations("force")
  /\ burst' = NoBurst
  /\ UNCHANGED <<lastVersion, remote, loads, v1run, view>>

\* the remote store handles a PUT and stores its body; a request that fails
\* (transport error, non-2xx status) leaves the stored document as it is
ServerPut(i) ==
  /\ puts[i].st = "sent"
  /\ puts' = [puts EXCEPT ![i].st = "ok"]
  /\ remote' = puts[i].doc
  /\ ret' = NoRet
  /\ UNCHANGED <<cache, pendingOperations, isProcessing, lastVersion, timers,
                 timeoutArmed, loads, calls, burst, v1run, view>>

\* the fetch of a PUT settles and resumes processPendingOperations: success
\* records the version, the catch branch empties the queue, finally clears
\* the flag; a fetch the store did not handle settles as a failure
PutResponse(i) ==
  LET p == puts[i]
      ok == p.st = "ok"
  IN /\ lastVersion' = VersionAfterPut(ok, cache, lastVersion)
     /\ pendingOperations' = QueueAfterPut(ok, pendingOperations)
     /\ isProcessing' = FlagAfterPut(ok)
     /\ puts' = RemoveAt(puts, i)
     /\ ret' = [act |-> "flushed", via |-> p.via, ok |-> ok,
                value |-> SettledReturn(ok)]
     /\ v1run' = IF ok /\ p.counted /\ v1run >= 0 THEN v1run + 1 ELSE v1run
     /\ burst' = IF ok THEN burst ELSE NoBurst
     /\ UNCHANGED <<cache, timers, timeoutArmed, remote, loads, calls, view>>

\* ---------------------------------------------------------- specification
\* the inputs the concurrency specification draws: two ids, one name, y = 0;
\* objects are added at x = 0 and moved to x = 1
Obj(i, newX) == [id |-> i, name |-> 1, x |-> newX, y |-> 0]

\* the documents earlier sessions may have left in the remote store
SeedDocs ==
  {Doc(<<Obj(1, 0)>>, v) : v \in 1..MaxVersion}

\* the module-wide singleton after construction
Init ==
  /\ cache = NoCache
  /\ pendingOperations = <<>>
  /\ isProcessing = FALSE
  /\ lastVersion = 0
  /\ timers = 0
  /\ timeoutArmed = FALSE
  /\ remote \in SeedDocs
  /\ loads = <<>>
  /\ puts = <<>>
  /\ ret = NoRet
  /\ calls = 0
  /\ burst = NoBurst
  /\ v1run = -1 /\ view = <<>>

Next ==
  \/ LoadObjects
  \/ \E localObjects \in {<<Obj(1, 1), Obj(2, 1)>>} : SyncObjects(localObjects)
  \/ \E objectId \in {1, 2} : AddObject(Obj(objectId, 0))
  \/ \E objectId \in {1} : UpdateObject(objectId, 1, 0)
  \/ \E objectId \in {1} : RemoveObject(objectId)
  \/ TimerFire
  \/ ForceSave
  \/ \E i \in DOMAIN loads : ServerGet(i)
  \/ \E i \in DOMAIN loads, shape \in LeanShapes : LoadResponse(i, shape)
  \/ \E i \in DOMAIN puts : ServerPut(i)
  \/ \E i \in DOMAIN puts : PutResponse(i)

Spec == Init /\ [][Next]_vars

\* --------------------------------------- specification of the operations
\* the closures addObject, updateObject and removeObject queue
Operations ==
  {[kind |-> "add", obj |-> it] : it \in Items}
    \cup {[kind |-> "update", id |-> i, x |-> newX, y |-> newY] :
            i \in Ids, newX \in Coords, newY \in Coords}
    \cup {[kind |-> "remove", id |-> i] : i \in Ids}

\* one stored object per id, with differing fields
SeedItem(i) ==
  [id |-> i, name |-> (i % MaxName) + 1, x |-> i % (MaxCoord + 1),
   y |-> (i + 1) % (MaxCoord + 1)]

SeedLists == ItemLists({SeedItem(i) : i \in Ids}, MaxLen)

\* the service after a load of a document of version 1 and a burst of one or
\* two operations, with the debounce timer armed
InitOps ==
  /\ \E objs \in SeedLists :
       \E queue \in {<<a>> : a \in Operations}
                      \cup {<<a, b>> : a \in Operations, b \in Operations} :
         /\ cache = [present |-> TRUE, objects |-> objs, version |-> 1]
         /\ remote = Doc(objs, 1)
         /\ pendingOperations = queue
         /\ calls = Len(queue)
         /\ burst = [on |-> TRUE, clean |-> TRUE, base |-> objs, ops |-> queue]
  /\ isProcessing = FALSE
  /\ lastVersion = 1
  /\ timers = 1
  /\ timeoutArmed = TRUE
  /\ loads = <<>>
  /\ puts = <<>>
  /\ ret = NoRet
  /\ v1run = 0 /\ view = <<>>

\* the burst is flushed, by the timer or by forceSave
NextOps ==
  \/ TimerFire
  \/ ForceSave

SpecOps == InitOps /\ [][NextOps]_vars

\* -------------------------------------------- specification of the merge
\* local lists as the presentation layer hands them to syncObjects
LocalLists == ItemLists({it \in Items : it.name = 1}, MaxLen)

\* the service after a load of a document of version 1, at a syncObjects call
\* suspended at its fetch
InitSync ==
  /\ remote \in {Doc(objs, 1) : objs \in SeedLists}
  /\ cache = LoadedCache(remote)
  /\ pendingOperations = <<>>
  /\ isProcessing = FALSE
  /\ lastVersion = 1
  /\ timers = 0
  /\ timeoutArmed = FALSE
  /\ loads \in {<<LoadTask("sync", NoOp, localObjects)>> : localObjects \in LocalLists}
  /\ puts = <<>>
  /\ ret = NoRet
  /\ calls = 1
  /\ burst = NoBurst
  /\ v1run = 0 /\ view = <<>>

\* the GET is answered or not, and settles
NextSync ==
  \/ \E i \in DOMAIN loads : ServerGet(i)
  \/ \E i \in DOMAIN loads, shape \in LeanShapes : LoadResponse(i, shape)

SpecSync == InitSync /\ [][NextSync]_vars

\* ------------------------------------------------------------- properties
\* the PUT a step has just issued
NewPut == puts'[Len(puts')]

IssuesPut == Len(puts') = Len(puts) + 1

\* C1: at most one flush is in flight at any time: a flush triggered while
\* the PUT of an earlier one has not resolved issues no PUT, so at most one PUT
\* request is outstanding
NoConcurrentFlush == Len(puts) <= 1

\* a flush was triggered while a PUT was in flight, and that PUT is still the
\* only one
SecondTriggerDropped ==
  ret.act = "flush" /\ ret.out = "busy" /\ Len(puts) = 1 /\ isProcessing

\* a debounce timer fires at the end of a tracked burst
BurstFires == burst.on /\ timers' < timers

\* the timer was the only one armed, its firing issues one PUT, and the PUT
\* carries the cache from before the burst with the burst's operations applied
OneFlushOfBurst ==
  /\ timers = 1
  /\ timers' = 0
  /\ IssuesPut
  /\ NewPut.doc.objects = ApplyAll(burst.base, burst.ops)

\* C2 as claimed: with the cache present and no flush in flight, k >= 1
\* operations each enqueued before the debounce timer fires leave one timer
\* armed and give one flush and one PUT when it fires, whose item list is the
\* cache's item list from before the burst with the k operations applied in
\* enqueue order
CoalescingAsClaimed == [][BurstFires => OneFlushOfBurst]_vars

\* C2 as amended: the same, for a burst that starts with an empty pending queue
Coalescing == [][BurstFires /\ burst.clean => OneFlushOfBurst]_vars

\* the timer has fired after a burst of two or more operations that started
\* with an empty queue, and the flush issued a PUT
BurstOfTwoFlushed ==
  /\ ret.act = "flush"
  /\ ret.via = "timer"
  /\ ret.out = "put"
  /\ ret.coalesced
  /\ Len(ret.ops) >= 2
  /\ Len(puts) = 1

\* C3: every operation in the pending queue when a flush begins is applied and
\* carried by that flush's PUT; an operation enqueued while the PUT is in flight
\* leaves the PUT's body as it was, stays unapplied in the queue and arms a
\* fresh debounce timer
FlushCarriesQueue ==
  [][/\ IssuesPut =>
          /\ NewPut.doc.objects = ApplyAll(cache.objects, pendingOperations)
          /\ cache'.objects = NewPut.doc.objects
          /\ pendingOperations' = <<>>
     /\ (isProcessing /\ Len(pendingOperations') > Len(pendingOperations)) =>
          /\ Len(puts') = Len(puts)
          /\ \A i \in DOMAIN puts : puts'[i].doc = puts[i].doc
          /\ remote' = remote
          /\ SubSeq(pendingOperations', 1, Len(pendingOperations)) = pendingOperations
          /\ timers' = 1
          /\ timeoutArmed']_vars

\* an operation was enqueued while a PUT was in flight
EnqueuedDuringFlush ==
  /\ isProcessing
  /\ Len(puts) = 1
  /\ pendingOperations # <<>>
  /\ timers = 1

\* the remote store handles a PUT in this step
StoresPut ==
  /\ Len(puts') = Len(puts)
  /\ \E i \in DOMAIN puts : puts[i].st = "sent" /\ puts'[i].st = "ok"

\* C4: with this client as the only writer, the version carried by each
\* successful PUT is strictly greater than the version of the document stored
\* remotely just before that PUT
VersionStrictlyGrows == [][StoresPut => remote'.version > remote.version]_vars

\* C5: starting from a cache whose version is 1, after N successful flushes with
\* no load in between the version stored remotely is N + 1
VersionCountsFlushes ==
  (v1run >= 1 /\ \A i \in DOMAIN puts : puts[i].st = "sent") =>
    remote.version = v1run + 1

\* a flush has just applied its queue, and the last operation was of kind k
Applied(k) ==
  /\ ret.act = "flush"
  /\ ret.out = "put"
  /\ ret.ops[Len(ret.ops)].kind = k

\* the operation a flush applied last, and the objects it was applied to
LastOp == ret.ops[Len(ret.ops)]

BeforeLastOp == ApplyAll(ret.before, SubSeq(ret.ops, 1, Len(ret.ops) - 1))

\* the objects of a list whose id is not id, in their order
Others(objs, id) == SelectSeq(objs, LAMBDA o : o.id # id)

Positions(objs, id) == {i \in DOMAIN objs : objs[i].id = id}

\* C6: once a queued addItem(item) has been applied the cache holds exactly
\* one item with item.id, it is the added item and the last element, and every
\* other item keeps its value and relative order; two adds with one id before a
\* flush leave one item, carrying the second add's values
ReplaceOnAdd ==
  Applied("add") =>
    /\ Positions(cache.objects, LastOp.obj.id) = {Len(cache.objects)}
    /\ cache.objects[Len(cache.objects)] = LastOp.obj
    /\ Others(cache.objects, LastOp.obj.id) = Others(BeforeLastOp, LastOp.obj.id)

\* one flush applied two adds with the same id and different values to a cache
\* that held that id and another
TwoAddsOneId ==
  /\ ret.act = "flush"
  /\ ret.out = "put"
  /\ Len(ret.ops) = 2
  /\ ret.ops[1].kind = "add"
  /\ ret.ops[2].kind = "add"
  /\ ret.ops[1].obj.id = ret.ops[2].obj.id
  /\ ret.ops[1].obj # ret.ops[2].obj
  /\ Len(ret.before) = 2
  /\ ret.before[1].id = ret.ops[1].obj.id

\* C7: removeItem(id), once applied, removes exactly the item with that id and
\* leaves every other item and the order of the rest unchanged; with no such
\* item the item sequence is unchanged
RemoveOnlyThatId ==
  Applied("remove") =>
    IF HasId(BeforeLastOp, LastOp.id)
      THEN \E k \in DOMAIN BeforeLastOp :
             /\ BeforeLastOp[k].id = LastOp.id
             /\ cache.objects = RemoveAt(BeforeLastOp, k)
      ELSE cache.objects = BeforeLastOp

\* a remove of an id the cache held next to another item was applied
RemovedOneOfTwo ==
  /\ Applied("remove")
  /\ Len(ret.ops) = 1
  /\ Len(ret.before) = 2
  /\ ret.before[1].id = LastOp.id
  /\ Len(cache.objects) = 1

\* a remove of an id the cache did not hold was applied
RemovedMissingId ==
  /\ Applied("remove")
  /\ Len(ret.ops) = 1
  /\ ret.before # <<>>
  /\ ~HasId(ret.before, LastOp.id)

\* C8: updateItem(id, x, y), once applied, changes only x and y of the item
\* with that id; its other fields, all other items, the item count and the
\* order stay; with no such item the sequence is unchanged and no item is made
UpdateOnlyPosition ==
  Applied("update") =>
    /\ Len(cache.objects) = Len(BeforeLastOp)
    /\ \A i \in DOMAIN BeforeLastOp :
         IF BeforeLastOp[i].id = LastOp.id
           THEN /\ cache.objects[i].x = LastOp.x
                /\ cache.objects[i].y = LastOp.y
                /\ cache.objects[i].id = BeforeLastOp[i].id
                /\ cache.objects[i].name = BeforeLastOp[i].name
           ELSE cache.objects[i] = BeforeLastOp[i]

\* an update moved one of two items to a position with x different from y
MovedOneOfTwo ==
  /\ Applied("update")
  /\ Len(ret.ops) = 1
  /\ Len(ret.before) = 2
  /\ ret.before[1].id = LastOp.id
  /\ LastOp.x # LastOp.y
  /\ ret.before[1].x # LastOp.x
  /\ cache.objects[1].x = LastOp.x

\* C9: when its load succeeds syncItems returns the server's items in server
\* order with the server's values, followed by exactly the local items whose id
\* the server list lacks, in local order and unmodified; a local item whose id
\* the server has never contributes its own position
MergeServerWins ==
  (ret.act = "sync" /\ ret.ok) =>
    /\ Len(ret.result) >= Len(ret.server)
    /\ SubSeq(ret.result, 1, Len(ret.server)) = ret.server
    /\ SubSeq(ret.result, Len(ret.server) + 1, Len(ret.result))
         = SelectSeq(ret.local, LAMBDA l : \A i \in DOMAIN ret.server :
                                              ret.server[i].id # l.id)
    /\ \A i \in DOMAIN ret.result :
         HasId(ret.server, ret.result[i].id) => ret.result[i] \in Range(ret.server)

\* a merge met an id both sides hold at different positions and an id only the
\* local list holds
MergedConflictAndLocalOnly ==
  /\ ret.act = "sync"
  /\ ret.ok
  /\ \E i \in DOMAIN ret.local, j \in DOMAIN ret.server :
       ret.local[i].id = ret.server[j].id /\ ret.local[i].x # ret.server[j].x
  /\ \E i \in DOMAIN ret.local : ~HasId(ret.server, ret.local[i].id)

\* C10: when the remote load fails during syncItems(localItems) the call
\* returns a list with the same items in the same order as localItems
MergeFailureKeepsLocal ==
  (ret.act = "sync" /\ ~ret.ok) => ret.result = ret.local

\* a merge whose load failed returned, for a local list of two items, while
\* the remote store held items
MergeFailedWithLocalItems ==
  /\ ret.act = "sync"
  /\ ~ret.ok
  /\ Len(ret.local) = 2
  /\ remote.objects # <<>>

\* ------------------------------------------------- recovery after a flush
\* the service with a loaded cache and one queued operation is flushed, by
\* the timer or by forceSave; once the flush has settled and nothing is in
\* flight the presentation layer calls loadObjects or syncObjects again
Quiescent == puts = <<>> /\ loads = <<>> /\ pendingOperations = <<>>

InitRecover ==
  /\ \E objs \in SeedLists :
       \E op \in Operations :
         /\ cache = [present |-> TRUE, objects |-> objs, version |-> 1]
         /\ remote = Doc(objs, 1)
         /\ pendingOperations = <<op>>
         /\ burst = [on |-> TRUE, clean |-> TRUE, base |-> objs, ops |-> <<op>>]
  /\ calls = 1
  /\ isProcessing = FALSE /\ lastVersion = 1 /\ timers = 1 /\ timeoutArmed = TRUE
  /\ loads = <<>> /\ puts = <<>> /\ ret = NoRet /\ v1run = 0 /\ view = <<>>

NextRecover ==
  \/ TimerFire
  \/ ForceSave
  \/ \E i \in DOMAIN puts : ServerPut(i)
  \/ \E i \in DOMAIN puts : PutResponse(i)
  \/ Quiescent /\ LoadObjects
  \/ Quiescent /\ \E localObjects \in {<<>>, <<SeedItem(1)>>} : SyncObjects(localObjects)
  \/ \E i \in DOMAIN loads : ServerGet(i)
  \/ \E i \in DOMAIN loads, shape \in AllShapes : LoadResponse(i, shape)

SpecRecover == InitRecover /\ [][NextRecover]_vars

\* the fetch of a PUT the store did not handle settles
PutSettlesFailed ==
  \E i \in DOMAIN puts : puts[i].st = "sent" /\ puts' = RemoveAt(puts, i)

\* the fetch of a GET settles with the document the store answered
LoadSettlesAnswered ==
  /\ \E i \in DOMAIN loads : loads[i].st = "ok" /\ loads' = RemoveAt(loads, i)
  /\ ret'.shape = "plain"

\* the fetch of a GET settles with anything else: no usable body, or a body
\* that lacks the record or a part of it
LoadSettlesFailed ==
  /\ Len(loads') < Len(loads)
  /\ ~LoadSettlesAnswered

\* C11: when the PUT of a flush fails, processPendingOperations (and with it
\* forceSave) returns false, the remote document is the one it was, the cache
\* is the one the flush left, with the drained operations applied, and
\* lastVersion is not advanced
FailedFlushKeepsState ==
  [][PutSettlesFailed =>
       /\ ret'.act = "flushed" /\ ret'.value = FALSE
       /\ remote' = remote
       /\ cache'.present /\ cache' = cache
       /\ lastVersion' = lastVersion]_vars

\* a forceSave has returned false and the cache holds a document one version
\* ahead of lastVersion whose objects the remote document does not have
ForcedFlushFailed ==
  /\ ret.act = "flushed" /\ ret.via = "force" /\ ~ret.ok /\ ret.value = FALSE
  /\ cache.version = lastVersion + 1
  /\ cache.objects # remote.objects

\* C12: after a failed flush, a later loadObjects the store answers makes
\* the objects and version of the cache and lastVersion those of the remote
\* document; the operations of the failed flush are not queued again and no
\* further PUT carries them
RecoveryReflectsRemote ==
  [][/\ LoadSettlesAnswered =>
          /\ cache'.objects = remote.objects
          /\ cache'.version = remote.version
          /\ lastVersion' = remote.version
     /\ pendingOperations = <<>> =>
          /\ pendingOperations' = <<>>
          /\ Len(puts') <= Len(puts)]_vars

\* the flush failed (the remote document still has its first version) and
\* the load replaced a cache that held the mutation by the remote objects
RecoveredAfterFailedFlush ==
  /\ ret.act = "load" /\ ret.answered /\ ret.shape = "plain"
  /\ remote.version = 1
  /\ ret.before # remote.objects
  /\ cache.objects = remote.objects
  /\ pendingOperations = <<>>

\* C13: forceSave returns true exactly when a PUT it issued completed
\* successfully: a call that issued no PUT (flush in flight, empty queue,
\* no cache) does not return true, and a call whose PUT settled returns
\* whether it succeeded
ForceSaveTrueIffWritten ==
  /\ (ret.act = "flush" /\ ret.via = "force" /\ ret.returned) => ret.value = FALSE
  /\ (ret.act = "flushed" /\ ret.via = "force") => ret.value = ret.ok

\* C14: forceSave cancels the pending debounce timer: once it has been
\* called no timer set by an earlier debouncedSave is left to fire
ForceSaveCancelsTimer ==
  [][(ret'.act = "flush" /\ ret'.via = "force") => timers' = 0]_vars

\* C15: an operation is applied to the cache when it is queued: once
\* addObject, updateObject or removeObject has returned, getCurrentObjects
\* is a list the operation leaves as it is
AppliedAtEnqueue ==
  ret.act = "op" => ApplyOp(GetCurrentObjects, ret.op) = GetCurrentObjects

\* loadObjects has returned normally, with an empty list, and the cache is
\* the empty document with version 1
FellBack ==
  /\ ret'.act \in {"load", "sync", "op"}
  /\ ret'.act = "load" => ret'.result = <<>>
  /\ cache' = [present |-> TRUE, objects |-> <<>>, version |-> 1]

SuccessfulLoadReplaces ==
  [][\A i \in DOMAIN loads :
       (loads[i].st = "ok" /\ loads' = RemoveAt(loads, i) /\ ret'.shape = "plain") =>
         /\ cache' = [present |-> TRUE, objects |-> loads[i].doc.objects,
                      version |-> loads[i].doc.version]
         /\ lastVersion' = loads[i].doc.version
         /\ ret'.act = "load" => ret'.result = cache'.objects]_vars

\* a loadObjects has replaced a cache that held other objects by a document
\* of version 2
LoadReplacedOtherItems ==
  /\ ret.act = "load" /\ ret.answered /\ ret.shape = "plain"
  /\ ret.before # <<>> /\ ret.before # ret.doc.objects
  /\ ret.doc.version = 2
  /\ cache.objects = ret.doc.objects /\ lastVersion = 2

\* the loadObjects of a load or of a merge settles in its catch branch
LoadOrMergeFails ==
  /\ Len(loads') < Len(loads)
  /\ ret'.act \in {"load", "sync"} /\ ~ret'.ok

\* C18 as claimed: after a failed load, a failed merge or a failed flush the
\* cache is present and still holds every object it held before
FailureKeepsItems ==
  [][(LoadOrMergeFails \/ PutSettlesFailed) =>
       /\ cache'.present
       /\ Range(GetCurrentObjects) \subseteq Range(cache'.objects)]_vars

\* C18: after a failed load or a failed merge the cache is present and is the
\* empty document with version 1, whatever it held before; after a failed
\* flush the cache is present and is what it was when the PUT failed
FailureLeavesCache ==
  [][/\ LoadOrMergeFails =>
          cache' = [present |-> TRUE, objects |-> <<>>, version |-> 1]
     /\ PutSettlesFailed => (cache'.present /\ cache' = cache)]_vars

\* a merge has failed over a cache that held objects and has emptied it
MergeFailedOverItems ==
  /\ ret.act = "sync" /\ ~ret.ok
  /\ ret.before # <<>>
  /\ cache.present /\ cache.objects = <<>>

\* C19: addObject, updateObject and removeObject return true, whether they
\* awaited a loadObjects and however it went, and they return with the
\* operation still in the queue, before any flush has drained it into a PUT
MutationsReportTrue ==
  ret.act = "op" =>
    /\ ret.value = TRUE
    /\ pendingOperations # <<>>
    /\ pendingOperations[Len(pendingOperations)] = ret.op

\* an addObject that awaited a failed loadObjects has returned true
AddReturnedAfterFailedLoad ==
  /\ ret.act = "op" /\ ret.op.kind = "add" /\ ret.value
  /\ lastVersion = 0 /\ cache.present /\ cache.objects = <<>>

\* C20: whenever the queue holds an operation the cache is present, and a
\* cache that is present is never absent again
QueueNeedsCache ==
  [][/\ pendingOperations' # <<>> => cache'.present
     /\ cache.present => cache'.present]_vars

\* operations are queued over the cache a failed loadObjects built while a
\* second loadObjects is still in flight
QueuedOverFallback ==
  /\ pendingOperations # <<>> /\ cache.present
  /\ lastVersion = 0
  /\ loads # <<>>

\* ------------------------------------------------- reading the cache
\* the presentation layer calls getCurrentObjects
CurrentObjects ==
  /\ ret' = [act |-> "current", result |-> GetCurrentObjects]
  /\ UNCHANGED <<cache, pendingOperations, isProcessing, lastVersion, timers,
                 timeoutArmed, remote, loads, puts, calls, burst, v1run, view>>

\* the service after construction, over a remote document of any seed list,
\* is loaded and read
InitView ==
  /\ cache = NoCache
  /\ pendingOperations = <<>> /\ isProcessing = FALSE /\ lastVersion = 0
  /\ timers = 0 /\ timeoutArmed = FALSE
  /\ remote \in {Doc(objs, v) : objs \in SeedLists, v \in 1..MaxVersion}
  /\ loads = <<>> /\ puts = <<>> /\ ret = NoRet /\ calls = 0
  /\ burst = NoBurst /\ v1run = -1 /\ view = <<>>

NextView ==
  \/ LoadObjects
  \/ \E i \in DOMAIN loads : ServerGet(i)
  \/ \E i \in DOMAIN loads, shape \in AllShapes : LoadResponse(i, shape)
  \/ CurrentObjects

SpecView == InitView /\ [][NextView]_vars

\* C21: getCurrentObjects returns the object list of the cache when there is
\* a cache and the empty list when there is none, and changes nothing
CurrentObjectsReads ==
  [][ret'.act = "current" =>
       /\ ret'.result = IF cache.present THEN cache.objects ELSE <<>>
       /\ UNCHANGED <<cache, pendingOperations, isProcessing, lastVersion,
                      timers, timeoutArmed, remote, loads, puts>>]_vars

\* getCurrentObjects has returned the objects of a loaded cache
ReadLoadedCache ==
  /\ ret.act = "current"
  /\ cache.present /\ cache.objects # <<>>
  /\ ret.result = cache.objects

\* ------------------------------------------------------- resetting the table
\* the document the reset leaves in the remote store: no objects, version 1
EmptyDocument == Doc(<<>>, 1)

\* resetObjects: the document of the remote store is replaced at once, past
\* the queue and the debounce timer
ResetObjects ==
  /\ remote' = EmptyDocument
  /\ UNCHANGED <<cache, pendingOperations, isProcessing, lastVersion, timers,
                 timeoutArmed, loads, puts, burst, v1run>>

\* a handleCustomObject that shows what the service has cached
ResetViewCached == GetCurrentObjects

\* setObjects([]) in the "__reset" branch of handleCustomObject
ResetView == <<>>

\* handleCustomObject("__reset"): await resetObjects(), then clear the view
HandleCustomObject ==
  /\ calls < MaxCalls
  /\ calls' = calls + 1
  /\ ResetObjects
  /\ view' = ResetView
  /\ ret' = [act |-> "reset", view |-> ResetView]

\* the service with a loaded cache, one queued operation and its timer armed
\* is flushed and reset in any order
NextReset ==
  \/ TimerFire
  \/ ForceSave
  \/ \E i \in DOMAIN puts : ServerPut(i)
  \/ \E i \in DOMAIN puts : PutResponse(i)
  \/ HandleCustomObject

SpecReset == InitRecover /\ [][NextReset]_vars

\* C22: the reset replaces the remote document at once by the empty document,
\* takes nothing from the pending queue, starts no PUT of processPendingOperations
\* and leaves the debounce timer alone, and the view of the caller is empty
\* afterwards
ResetBypassesQueue ==
  [][ret'.act = "reset" =>
       /\ remote' = [objects |-> <<>>, version |-> 1]
       /\ pendingOperations' = pendingOperations
       /\ puts' = puts /\ isProcessing' = isProcessing
       /\ timers' = timers /\ timeoutArmed' = timeoutArmed
       /\ ret'.view = <<>>]_vars

\* the table was reset with an operation queued, its timer armed and objects
\* in the cache
ResetWithQueuedOperation ==
  /\ ret.act = "reset" /\ ret.view = <<>>
  /\ pendingOperations # <<>> /\ timers = 1
  /\ cache.objects # <<>>
  /\ remote.objects = <<>>

SuccessRecordsPutVersion ==
  [][\A i \in DOMAIN puts :
       (puts[i].st = "ok" /\ puts' = RemoveAt(puts, i)) =>
         lastVersion' = puts[i].doc.version]_vars

\* C26: when a flush fails every operation the failure discards from the
\* queue has been applied to the cache, the operations queued while the PUT
\* was in flight included, and none of them is queued again
DiscardedWereApplied ==
  [][PutSettlesFailed =>
       /\ ApplyAll(cache.objects, pendingOperations) = cache.objects
       /\ pendingOperations' = <<>>]_vars

\* C27: a failed flush is not retried: the failure leaves the queue empty, a
\* PUT is issued only from a queue that holds an operation, and an empty
\* queue comes to hold one only when addObject, updateObject or removeObject
\* queues it; so after a failure neither the timer nor forceSave issues a PUT
\* before a new operation is queued
NoRetryAfterFailure ==
  [][/\ PutSettlesFailed => pendingOperations' = <<>>
     /\ IssuesPut => pendingOperations # <<>>
     /\ (pendingOperations = <<>> /\ pendingOperations' # <<>>) =>
          ret'.act = "op"]_vars

\* after a failed flush (the cache is one version ahead of lastVersion and
\* nothing is in flight) a forceSave found the queue empty and issued no PUT
ForceSaveAfterFailureIdle ==
  /\ ret.act = "flush" /\ ret.via = "force" /\ ret.out = "empty"
  /\ ~isProcessing /\ puts = <<>>
  /\ lastVersion >= 1 /\ cache.version = lastVersion + 1

\* C28: while the PUT of a flush stays unresolved the operations queued in
\* the meantime stay in the queue, in the order they were queued, no flush
\* trigger changes the cache (only a completing load does), and no second
\* PUT is issued
HungPutKeepsQueue ==
  [][(isProcessing /\ isProcessing') =>
       /\ Len(pendingOperations') >= Len(pendingOperations)
       /\ SubSeq(pendingOperations', 1, Len(pendingOperations)) = pendingOperations
       /\ Len(pendingOperations') > Len(pendingOperations) =>
            pendingOperations' = Append(pendingOperations, ret'.op)
       /\ Len(puts') = Len(puts)
       /\ \A i \in DOMAIN puts : puts'[i].doc = puts[i].doc
       /\ ret'.act = "flush" => cache' = cache
       /\ cache' # cache => Len(loads') < Len(loads)]_vars

\* two different operations were queued, one after the other, behind a PUT
\* the store has not handled
TwoQueuedBehindHungPut ==
  /\ isProcessing /\ Len(puts) = 1 /\ puts[1].st = "sent"
  /\ Len(pendingOperations) = 2
  /\ pendingOperations[1] # pendingOperations[2]
  /\ ret.act = "op" /\ ret.op = pendingOperations[2]

\* C29: a flush applies its batch in one piece: between two suspensions a
\* flush trigger either applies every queued operation and empties the queue
\* or applies none and leaves the queue, and no other step applies a queued
\* operation (only a completing load changes the objects of the cache); so
\* the cache never shows a part of a batch and the queue never holds an
\* operation that has been applied
BatchAtomic ==
  [][/\ ret'.act = "flush" =>
          \/ /\ cache'.objects = ApplyAll(cache.objects, pendingOperations)
             /\ pendingOperations' = <<>>
          \/ /\ cache' = cache
             /\ pendingOperations' = pendingOperations
     /\ (ret'.act # "flush" /\ cache'.objects # cache.objects) =>
          Len(loads') < Len(loads)]_vars

\* a flush has applied a batch of two operations of which the first alone
\* would have left other objects, and the queue is empty
BatchOfTwoApplied ==
  /\ ret.act = "flush" /\ ret.out = "put" /\ Len(ret.ops) = 2
  /\ cache.objects = ApplyAll(ret.before, ret.ops)
  /\ cache.objects # ApplyAll(ret.before, SubSeq(ret.ops, 1, 1))
  /\ cache.objects # ret.before
  /\ pendingOperations = <<>>

\* ------------------------------------------------------ the body of a PUT
\* the service with one or two operations queued over a cache that either
\* was loaded (any seed list, any version, lastVersion the same) or was built
\* by the catch branch of a first loadObjects (no objects, version 1,
\* lastVersion 0) is flushed by the timer or by forceSave
InitFlush ==
  /\ \E objs \in SeedLists, lv \in 0..MaxVersion :
       \E queue \in {<<a>> : a \in Operations}
                      \cup {<<a, b>> : a \in Operations, b \in Operations} :
         /\ lv = 0 => objs = <<>>
         /\ cache = IF lv = 0 THEN FallbackCache
                    ELSE [present |-> TRUE, objects |-> objs, version |-> lv]
         /\ lastVersion = lv
         /\ remote = IF lv = 0 THEN Doc(<<SeedItem(1)>>, 1) ELSE Doc(objs, lv)
         /\ pendingOperations = queue
         /\ calls = Len(queue)
         /\ burst = [on |-> TRUE, clean |-> TRUE, base |-> objs, ops |-> queue]
  /\ isProcessing = FALSE /\ timers = 1 /\ timeoutArmed = TRUE
  /\ loads = <<>> /\ puts = <<>> /\ ret = NoRet /\ v1run = -1 /\ view = <<>>

NextFlush == \/ TimerFire \/ ForceSave

SpecFlush == InitFlush /\ [][NextFlush]_vars

\* C30: the document a flush PUTs has the version lastVersion + 1, with
\* lastVersion as it is when the flush starts, and the objects of the cache
\* with the queued operations applied one after the other in queue order, so
\* that of two updates of one id the later one gives x and y; the queue is
\* empty when the PUT is issued
PutCarriesBumpedQueue ==
  [][IssuesPut =>
       /\ NewPut.doc.version = lastVersion + 1
       /\ NewPut.doc.objects =
            IF Len(pendingOperations) = 1
              THEN ApplyOp(cache.objects, pendingOperations[1])
              ELSE ApplyOp(ApplyOp(cache.objects, pendingOperations[1]),
                           pendingOperations[2])
       /\ (/\ Len(pendingOperations) = 2
           /\ pendingOperations[1].kind = "update"
           /\ pendingOperations[2].kind = "update"
           /\ pendingOperations[1].id = pendingOperations[2].id) =>
            \A k \in DOMAIN NewPut.doc.objects :
              NewPut.doc.objects[k].id = pendingOperations[2].id =>
                /\ NewPut.doc.objects[k].x = pendingOperations[2].x
                /\ NewPut.doc.objects[k].y = pendingOperations[2].y
       /\ pendingOperations' = <<>>]_vars

\* a flush over a cache of version 2 has applied two different updates of an
\* id the cache held and its PUT carries version 3 and the later position
TwoUpdatesFlushed ==
  /\ ret.act = "flush" /\ ret.out = "put" /\ Len(ret.ops) = 2
  /\ ret.ops[1].kind = "update" /\ ret.ops[2].kind = "update"
  /\ ret.ops[1].id = ret.ops[2].id
  /\ <<ret.ops[1].x, ret.ops[1].y>> # <<ret.ops[2].x, ret.ops[2].y>>
  /\ HasId(ret.before, ret.ops[1].id)
  /\ lastVersion = 2
  /\ Len(puts) = 1 /\ puts[1].doc.version = 3
  /\ \E k \in DOMAIN puts[1].doc.objects :
       /\ puts[1].doc.objects[k].id = ret.ops[2].id
       /\ puts[1].doc.objects[k].x = ret.ops[2].x
       /\ puts[1].doc.objects[k].y = ret.ops[2].y
  /\ pendingOperations = <<>>

\* ------------------------------------------------- enqueue, flush, retry
\* the service has loaded [item 1] and an update of item 1 is queued with
\* its timer armed
InitQueued ==
  /\ \E v \in 1..MaxVersion :
       /\ cache = [present |-> TRUE, objects |-> <<Obj(1, 0)>>, version |-> v]
       /\ remote = Doc(<<Obj(1, 0)>>, v)
       /\ lastVersion = v
  /\ pendingOperations = <<[kind |-> "update", id |-> 1, x |-> 1, y |-> 0]>>
  /\ burst = NoBurst /\ calls = 1
  /\ isProcessing = FALSE /\ timers = 1 /\ timeoutArmed = TRUE
  /\ loads = <<>> /\ puts = <<>> /\ ret = NoRet /\ v1run = -1 /\ view = <<>>

\* flushes succeed or fail while further operations are enqueued, and no load
\* replaces the cache
NextRetry ==
  \/ \E objectId \in {1, 2} : AddObject(Obj(objectId, 0))
  \/ \E objectId \in {1} : UpdateObject(objectId, 1, 0)
  \/ TimerFire
  \/ ForceSave
  \/ \E i \in DOMAIN puts : ServerPut(i)
  \/ \E i \in DOMAIN puts : PutResponse(i)

SpecRetry == InitQueued /\ [][NextRetry]_vars

\* operations are queued and nothing that would flush them is still to come:
\* no debounce timer is armed and no mutator has yet to enqueue
Unscheduled ==
  pendingOperations # <<>> /\ timers = 0 /\ OpsAwaitingLoad = 0

\* C31 as stated: every accepted operation is eventually applied and carried
\* by a PUT with no further enqueue or forceSave, so queued operations always
\* have a trigger to come
QueuedOperationIsScheduled == ~Unscheduled

\* C31: a trigger that finds no flush in flight applies the whole queue and
\* sends it in a PUT; queued operations lose their trigger only when the timer
\* fires while a flush is in flight, and then they stay queued
TriggerLostOnlyWhenBusy ==
  [][/\ (ret'.act = "flush" /\ ~isProcessing /\ pendingOperations # <<>>) =>
          /\ IssuesPut
          /\ NewPut.doc.objects = ApplyAll(cache.objects, pendingOperations)
          /\ pendingOperations' = <<>>
     /\ (~Unscheduled /\ Unscheduled') =>
          /\ ret'.act = "flush" /\ ret'.via = "timer" /\ ret'.out = "busy"
          /\ pendingOperations' = pendingOperations]_vars

\* operations are queued, nothing is in flight and no trigger is to come
QueuedWithNoTrigger ==
  Unscheduled /\ ~isProcessing /\ puts = <<>>

\* ------------------------------------------------- a client that removes nothing
\* the fresh service over a filled remote document, driven by loads, adds and
\* moves only: removeObject is never called
NextAdditive ==
  \/ LoadObjects
  \/ \E objectId \in {2} : AddObject(Obj(objectId, 0))
  \/ \E objectId \in {1} : UpdateObject(objectId, 1, 0)
  \/ TimerFire
  \/ \E i \in DOMAIN loads : ServerGet(i)
  \/ \E i \in DOMAIN loads, shape \in LeanShapes : LoadResponse(i, shape)
  \/ \E i \in DOMAIN puts : ServerPut(i)
  \/ \E i \in DOMAIN puts : PutResponse(i)

SpecAdditive == Init /\ [][NextAdditive]_vars

\* C32: with this client as the only writer and no removal among its
\* operations, every item of the remote document is still there after any PUT
\* the store handles, whether or not the load before the flush failed
FlushKeepsUnremovedItems ==
  [][\A k \in DOMAIN remote.objects :
       HasId(remote'.objects, remote.objects[k].id)]_vars

\* ------------------------------------------------ a load racing a flush
\* no request fails: every GET is answered and every PUT is handled before it
\* settles; the only further operation is the add of item 2, so nothing
\* targets item 1 after its update
NextRace ==
  \/ LoadObjects
  \/ \E objectId \in {2} : AddObject(Obj(objectId, 0))
  \/ TimerFire
  \/ \E i \in DOMAIN loads : ServerGet(i)
  \/ \E i \in DOMAIN loads : loads[i].st = "ok" /\ LoadResponse(i, "plain")
  \/ \E i \in DOMAIN puts : ServerPut(i)
  \/ \E i \in DOMAIN puts : puts[i].st = "ok" /\ PutResponse(i)

SpecRace == InitQueued /\ [][NextRace]_vars

\* what the operations of SpecRace leave of the items they target
StoredEffects == {Obj(1, 1), Obj(2, 0)}

\* C33 as stated: once the effect of an operation is in the remote document,
\* no later PUT takes it out (no later operation targets the same id), also
\* when a load starts before and completes after the PUT that stored it
StoredEffectStays ==
  [][\A o \in StoredEffects :
       o \in Range(remote.objects) => o \in Range(remote'.objects)]_vars

\* C33: a PUT keeps every stored effect the cache still holds when the PUT is
\* issued, and an effect leaves the cache only when a load completes
StoredEffectStaysWhileCached ==
  [][\A o \in StoredEffects :
       /\ (IssuesPut /\ o \in Range(remote.objects)
             /\ o \in Range(cache.objects)) =>
            o \in Range(NewPut.doc.objects)
       /\ (o \in Range(cache.objects) /\ o \notin Range(cache'.objects)) =>
            Len(loads') < Len(loads)]_vars

\* a second PUT was stored and the remote document holds the effects of both
SecondPutKeptFirst ==
  /\ remote.version >= 3
  /\ \A o \in StoredEffects : o \in Range(remote.objects)

\* ------------------------------------------------------- order of the queue
\* the step appends one operation to the queue
Enqueues == Len(pendingOperations') = Len(pendingOperations) + 1

\* an addObject, updateObject or removeObject called earlier still awaits its
\* implicit load: loads is in call order, so these are the tasks before
\* position i that carry an operation other than e
EarlierCallAwaits(i, e) ==
  \E j \in 1..(i - 1) : loads[j].kind = "op" /\ loads[j].op # e

\* C34: operations enter the queue in the order in which addObject,
\* updateObject and removeObject were called: when one is appended, no call
\* made before it is still waiting to enqueue, also when each call awaits its
\* own implicit load
QueuedInCallOrder ==
  [][Enqueues =>
       LET e == pendingOperations'[Len(pendingOperations')]
       IN IF Len(loads') = Len(loads)
            THEN ~EarlierCallAwaits(Len(loads) + 1, e)
            ELSE \A i \in DOMAIN loads :
                   (loads' = RemoveAt(loads, i) /\ loads[i].kind = "op"
                      /\ loads[i].op = e) => ~EarlierCallAwaits(i, e)]_vars

\* C35: when the PUT of a flush resolves, with success or with failure, the
\* in-flight flag is cleared, so a flush triggered with no PUT outstanding, a
\* non-empty queue and a present cache issues a PUT
FlagClearedWhenPutResolves ==
  [][/\ Len(puts') < Len(puts) => ~isProcessing'
     /\ (ret'.act = "flush" /\ puts = <<>> /\ pendingOperations # <<>>
           /\ cache.present) =>
          IssuesPut /\ ret'.out = "put"]_vars

\* a PUT has just been issued after an earlier PUT failed: nothing was ever
\* recorded as written, and the cache was ahead of the remote document
PutAfterFailedPut ==
  /\ ret.act = "flush" /\ ret.out = "put"
  /\ lastVersion = 1 /\ ret.before # remote.objects

\* C36: a failed flush leaves the cache as the document it tried to send, and
\* while no load or merge replaces the cache the next PUT carries that cache
\* with the new queue applied, under the version the failed flush attempted
FailedMutationsResent ==
  [][/\ \A i \in DOMAIN puts :
          (puts[i].st = "sent" /\ puts' = RemoveAt(puts, i)) =>
            /\ PutBody(cache') = puts[i].doc
            /\ lastVersion' + 1 = puts[i].doc.version
     /\ (IssuesPut /\ cache.version = lastVersion + 1) =>
          /\ NewPut.doc.version = cache.version
          /\ NewPut.doc.objects = ApplyAll(cache.objects, pendingOperations)]_vars

\* the PUT issued after a failed one is being stored: it has the version the
\* failed flush attempted and differs from what the failed flush left
ResentUnderSameVersion ==
  /\ ret.act = "flush" /\ ret.out = "put" /\ ret.before # remote.objects
  /\ lastVersion = remote.version
  /\ puts[1].doc.version = lastVersion + 1
  /\ puts[1].doc.objects # ret.before

\* ------------------------------------------------ the table and its service
\* objects.find(obj => obj.id === id): the object as a list of one, or the
\* empty list for undefined
Find(objs, objectId) == SelectSeq(objs, LAMBDA o : o.id = objectId)

\* handleAddObject with the cache present: the new object is appended to the
\* view and addObject queues its closure
HandleAddObject(newObject) ==
  /\ cache.present
  /\ calls < MaxCalls
  /\ Len(pendingOperations) < MaxQueue
  /\ calls' = calls + 1
  /\ view' = Append(view, newObject)
  /\ QueueOperation([kind |-> "add", obj |-> TableObjectToStored(newObject)],
                    cache, burst)
  /\ ret' = [act |-> "handleAdd", object |-> newObject]
  /\ UNCHANGED <<cache, isProcessing, lastVersion, remote, loads, puts, v1run>>

\* handleRemoveObject with the cache present, up to the fetch of the forceSave
\* it awaits: the object leaves the view, removeObject queues its closure and
\* forceSave runs processPendingOperations. forceSave returns true or false
\* and never throws, so the handler's catch block is never entered; what is
\* left of the handler after the await changes no state
HandleRemoveObject(objectId) ==
  LET removedObject == Find(view, objectId)
      queue == Append(pendingOperations, [kind |-> "remove", id |-> objectId])
  IN /\ cache.present
     /\ calls < MaxCalls
     /\ Len(pendingOperations) < MaxQueue
     /\ calls' = calls + 1
     /\ view' = SelectSeq(view, LAMBDA o : o.id # objectId)
     /\ timers' = ForceClear(Debounce(timers, timeoutArmed), TRUE)
     /\ timeoutArmed' = TRUE
     /\ burst' = NoBurst
     /\ IF isProcessing
          THEN /\ pendingOperations' = queue
               /\ UNCHANGED <<isProcessing, cache, puts>>
          ELSE /\ isProcessing' = TRUE
               /\ cache' = FlushedCache(cache, queue, lastVersion)
               /\ pendingOperations' = Drained(queue)
               /\ puts' = Append(puts, [doc |-> PutBody(cache'), st |-> "sent",
                                        via |-> "remove",
                                        counted |-> v1run >= 0,
                                        removedObject |-> removedObject])
     /\ ret' = [act |-> "handleRemove", id |-> objectId,
                flushed |-> ~isProcessing]
     /\ UNCHANGED <<lastVersion, remote, loads, v1run>>

\* the interval of the sync effect fires: performSync up to the fetch of the
\* syncObjects it awaits
PerformSync ==
  /\ calls < MaxCalls
  /\ Len(loads) < MaxLoads
  /\ loads' = Append(loads, SyncTask(MapStored(ClosureObjects)))
  /\ calls' = calls + 1
  /\ ret' = NoRet
  /\ UNCHANGED <<cache, pendingOperations, isProcessing, lastVersion, timers,
                 timeoutArmed, remote, puts, burst, v1run, view>>

\* the table once loadStoredObjects has shown the remote document
InitTable ==
  /\ remote \in SeedDocs
  /\ cache = [present |-> TRUE, objects |-> remote.objects,
              version |-> remote.version]
  /\ lastVersion = remote.version
  /\ view = remote.objects
  /\ pendingOperations = <<>> /\ isProcessing = FALSE
  /\ timers = 0 /\ timeoutArmed = FALSE
  /\ loads = <<>> /\ puts = <<>> /\ ret = NoRet /\ calls = 0
  /\ burst = NoBurst /\ v1run = -1

NextTable ==
  \/ \E objectId \in {2} : HandleAddObject(Obj(objectId, 0))
  \/ \E objectId \in {1} : HandleRemoveObject(objectId)
  \/ PerformSync
  \/ TimerFire
  \/ \E i \in DOMAIN loads : ServerGet(i)
  \/ \E i \in DOMAIN loads, shape \in LeanShapes : LoadResponse(i, shape)
  \/ \E i \in DOMAIN puts : ServerPut(i)
  \/ \E i \in DOMAIN puts : PutResponse(i)

SpecTable == InitTable /\ [][NextTable]_vars

\* C37: an item that was in the view and absent from the server document when
\* the sync timer fired, and that the user has not removed since, is in the
\* view when that sync cycle ends
SyncKeepsLocalOnlyItems ==
  [][\A i \in DOMAIN loads :
       (loads[i].kind = "performSync" /\ loads' = RemoveAt(loads, i)) =>
         \A k \in DOMAIN view :
           (HasId(loads[i].shown, view[k].id)
              /\ ~HasId(loads[i].stored, view[k].id)) =>
             HasId(view', view[k].id)]_vars

\* C38: when the forced flush of a removal has succeeded, the removed item is
\* not in the view, whether or not a periodic sync's load was in flight
\* during the flush
RemovedItemStaysOut ==
  [][\A i \in DOMAIN puts :
       (puts[i].via = "remove" /\ puts[i].st = "ok"
          /\ puts' = RemoveAt(puts, i)) =>
         \A k \in DOMAIN puts[i].removedObject :
           ~HasId(view', puts[i].removedObject[k].id)]_vars

\* C39: when the forced flush of handleRemoveObject fails, the removed object
\* is back in the view afterwards
FailedRemovalRestoresView ==
  [][\A i \in DOMAIN puts :
       (puts[i].via = "remove" /\ puts[i].st = "sent"
          /\ puts' = RemoveAt(puts, i)) =>
         \A k \in DOMAIN puts[i].removedObject :
           HasId(view', puts[i].removedObject[k].id)]_vars

============================================================================
